---- MODULE Spec2Model ----
(***************************************************************************)
(* LazyProxy client transports (src/client/module/Agent/service):          *)
(* HTTP (streaming request), MQTT (publish/subscribe with a polled inbox)  *)
(* and WebSocket (full-duplex socket).  One Transport instance of one      *)
(* variant is modelled per behaviour; the variant, the callback and the    *)
(* timeout are fixed by the constructor (Init).  HTTPServer                 *)
(* (src/service/HTTP.py) is modelled by the specifications SpecServer and  *)
(* FairServer: its start, stop and _run_server, statement by statement.    *)
(***************************************************************************)
EXTENDS Integers, Sequences, FiniteSets, TLC

\* ---------------------------------------------------------------- bounds
MaxAppends  == 3   \* Messages appended to the inbox / frames waiting in the socket
MaxTimeout  == 1   \* largest configured timeout
MaxTime     == MaxTimeout + 1   \* last clock reading: one unit past any deadline
MaxBody     == 2   \* lines of one HTTP response body
MaxListeners == 2  \* MQTT network-loop threads alive at once
MaxRuns     == 2   \* executions of HTTPServer._run_server in one behaviour
MaxCallers  == 2   \* threads calling HTTPServer.start / stop
MaxConns    == 2   \* websockets accepted by one WebSocketServer
MaxWrites   == 2   \* messages written to one AIFactory history

\* ------------------------------------------------------------- messages
Msg == {"a", "b", "done"}

\* json.dumps / json.loads at the transport boundary: a payload is the
\* encoded text of one Message, the empty line of a body is the empty text.
json_dumps(m) == <<m>>
json_loads(p) == p[1]
EmptyLine == <<>>
Payload == {json_dumps(m) : m \in Msg}
Line == Payload \cup {EmptyLine}

\* the callback / ended predicate handed to the constructor
\* (lambda m: m["done"] == True)
Ended(m) == m = "done"

SeqsUpTo(S, n) == UNION {[1..k -> S] : k \in 0..n}
Last(s) == s[Len(s)]

\* AIFactory: the values of ai and history that stand for None
NoAI == [vendor |-> "None", model |-> "None", tools |-> FALSE]
NoHistory == [system_prompt |-> "None", token_callback |-> "None",
              messages |-> 0]

Runs == 1..MaxRuns
Conns == 1..MaxConns
Callers == 1..MaxCallers

VARIABLES
    variant,    \* "HTTP" | "MQTT" | "WS": the class of the instance
    callback,   \* TRUE: self.callback / self.ended is the predicate; FALSE: None
    timeout,    \* self.timeout
    client,     \* self.client / self.ws: "None" or "Client"
    linked,     \* the handle in client has a live connection to the remote end
    listeners,  \* MQTT: running network-loop threads (loop_start .. loop_stop)
    messages,   \* MQTT: self.messages, the inbox
    wire,       \* WS: frames received and not yet read; HTTP: unread body lines
    pc,         \* position of the caller inside send
    results,    \* local variable results of send
    start,      \* local variable start of MQTT.send
    now,        \* time.time(), read on a clock whose epoch is the last send call
    ret,        \* Messages handed to the caller by the current/last send
    retKind,    \* "none" | "single" | "list" | "generator"
    outcome,    \* "none" | "Completed" | "TimedOut" | "Failed"
    err,        \* exception raised to the caller by the last call, or "none"
    pushed,     \* the current/last send pushed an outbound Message to the remote
    op,         \* last API call: "init" | "connect" | "send" | "close"
    opSeq,      \* flips at every API call
    tstate,     \* Transport State: "Unconnected" | "Connected" | "Closed"
    sendFrom,   \* Transport State in which the last send was called
    appendLog,  \* MQTT: every Message appended to the inbox, in append order
    popped,     \* MQTT: how many of appendLog were popped from the inbox
    mark,       \* popped when the current/last send started
    fresh,      \* a Message was appended to the inbox since the last publish
    subscribed, \* MQTT: the handle in client has subscribed to response_topic
    ownLoop,    \* MQTT: the network-loop thread of the handle in client runs
    slept,      \* the current/last send executed time.sleep
    bad,        \* an undecodable payload reached a listener during the
                \* current/last send
    pc2,        \* position of a second caller thread inside MQTT.send
    results2,   \* local variable results of the second caller's send
    start2,     \* local variable start of the second caller's send
    ret2,       \* Messages handed to the second caller by its send
    outcome2,   \* outcome of the second caller's send
    is_running, \* HTTPServer.is_running
    _server,    \* HTTPServer._server: 0 (None) or the uvicorn.Server object
    _thread,    \* HTTPServer._thread: 0 (None) or the background thread
    should_exit,\* the uvicorn.Server objects whose should_exit is True
    rpc,        \* position of each execution of _run_server
    rsrv,       \* the uvicorn.Server object each execution calls run() on
    rowner,     \* the caller blocked in each execution, 0 for a thread
    cpc,        \* position of each caller thread inside start / stop
    cblock,     \* argument block of each caller's current start
    stopSeen,   \* since is_running last fell, a stop() called after
                \* start(block=False) had returned found is_running true
    took,       \* MQTT: the last locked block of send popped a Message
    stale,      \* MQTT: Messages in the inbox at the current/last publish
    body,       \* HTTP: the lines of the response body of the current/last send
    fault,      \* HTTP: the httpx exception that ended the current/last send
    token,      \* AIFactory.token
    ai,         \* AIFactory.ai: NoAI or the model instance
    history,    \* AIFactory.history: NoHistory or the history manager
    arg,        \* arguments of the last connect / switch_model call
    clients,    \* WebSocketServer.clients
    _on_connect_callback,     \* WebSocketServer: a callback is set
    _on_message_callback,
    _on_disconnect_callback,
    hpc,        \* position of _handler for each websocket
    disc        \* times the on_disconnect callback was invoked per websocket

vars == <<variant, callback, timeout, client, linked, listeners, messages,
          wire, pc, results, start, now, ret, retKind, outcome, err, pushed,
          op, opSeq, tstate, sendFrom, appendLog, popped, mark, fresh,
          subscribed, ownLoop, slept, bad, pc2, results2, start2, ret2,
          outcome2, is_running, _server, _thread, should_exit, rpc, rsrv,
          rowner, cpc, cblock, stopSeen, took, stale, body, fault, token,
          ai, history, arg, clients, _on_connect_callback,
          _on_message_callback, _on_disconnect_callback, hpc, disc>>

\* groups used in UNCHANGED
settings == <<variant, callback, timeout>>
second   == <<pc2, results2, start2, ret2, outcome2>>
httpserver == <<is_running, _server, _thread, should_exit, rpc, rsrv,
                rowner, cpc, cblock, stopSeen>>
factory  == <<token, ai, history, arg>>
callbacks == <<_on_connect_callback, _on_message_callback,
               _on_disconnect_callback>>
wsserver == <<clients, callbacks, hpc, disc>>
config   == <<settings, second, httpserver, factory, wsserver>>
loop     == <<subscribed, ownLoop>>
trace    == <<took, stale, body, fault>>
aux      == <<slept, bad, trace>>
handle   == <<client, linked, listeners, tstate, loop>>
inbound  == <<messages, wire, appendLog, popped>>
exchange == <<pc, results, start, ret, retKind, outcome, pushed, sendFrom,
              mark, fresh, aux>>
call     == <<op, opSeq, err>>

Call(name, e) ==
    /\ op' = name
    /\ opSeq' = 1 - opSeq
    /\ err' = e

\* ----------------------------------------------------------------- Init
\* __init__ of the three classes
Init ==
    /\ variant \in {"HTTP", "MQTT", "WS"}
    /\ callback \in BOOLEAN
    /\ variant = "HTTP" => callback
    /\ timeout \in 0..MaxTimeout
    /\ variant = "HTTP" => timeout > 0
    /\ variant = "WS" => timeout = 0
    /\ client = "None"
    /\ linked = FALSE
    /\ listeners = 0
    /\ messages = <<>>
    /\ wire = <<>>
    /\ pc = "idle"
    /\ results = <<>>
    /\ start = 0
    /\ now = 0
    /\ ret = <<>>
    /\ retKind = "none"
    /\ outcome = "none"
    /\ err = "none"
    /\ pushed = FALSE
    /\ op = "init"
    /\ opSeq = 0
    /\ tstate = "Unconnected"
    /\ sendFrom = "none"
    /\ appendLog = <<>>
    /\ popped = 0
    /\ mark = 0
    /\ fresh = FALSE
    /\ subscribed = FALSE
    /\ ownLoop = FALSE
    /\ slept = FALSE
    /\ bad = FALSE
    /\ pc2 = "idle"
    /\ results2 = <<>>
    /\ start2 = 0
    /\ ret2 = <<>>
    /\ outcome2 = "none"
    /\ is_running = FALSE
    /\ _server = 0
    /\ _thread = 0
    /\ should_exit = {}
    /\ rpc = [t \in Runs |-> "unborn"]
    /\ rsrv = [t \in Runs |-> 0]
    /\ rowner = [t \in Runs |-> 0]
    /\ cpc = [c \in Callers |-> "idle"]
    /\ cblock = [c \in Callers |-> FALSE]
    /\ stopSeen = FALSE
    /\ took = FALSE
    /\ stale = 0
    /\ body = <<>>
    /\ fault = "none"
    /\ token = "None"
    /\ ai = NoAI
    /\ history = NoHistory
    /\ arg = <<>>
    /\ clients = {}
    /\ _on_connect_callback = FALSE
    /\ _on_message_callback = FALSE
    /\ _on_disconnect_callback = FALSE
    /\ hpc = [w \in Conns |-> "waiting"]
    /\ disc = [w \in Conns |-> 0]

\* the clock advances; only MQTT.send reads it, between `start = time.time()`
\* and its return, so time that passes elsewhere is not recorded
Tick ==
    /\ variant = "MQTT"
    /\ pc # "idle" \/ pc2 # "idle"
    /\ now < MaxTime + (IF pc2 # "idle" THEN start2 ELSE 0)
    /\ now' = now + 1
    /\ UNCHANGED <<config, handle, inbound, pc, results, start, ret, retKind,
                   outcome, pushed, sendFrom, mark, fresh, aux, call>>

\* ------------------------------------------------------ shared code pieces
\* `if self.client is None:` / `if self.ws is None:` at the top of send
NotConnected(c) == c = "None"

\* `if self.client:` / `if self.ws:` at the top of close
Truthy_Always(c) == TRUE
Truthy(c) == c # "None"

\* a method call on the handle: on None it raises AttributeError
Deref(c) == IF c = "None" THEN "AttributeError" ELSE "none"

\* `self.messages.append(data)`
InboxAppend_Front(s, m) == <<m>> \o s
InboxAppend(s, m) == Append(s, m)

\* `self.messages.pop(0)`
Pop0_Keep(s) == [msg |-> Head(s), rest |-> s]
Pop0_Last(s) == [msg |-> s[Len(s)], rest |-> SubSeq(s, 1, Len(s) - 1)]
Pop0(s) == [msg |-> Head(s), rest |-> Tail(s)]

\* `if self.callback(msg): return results` / `if self.ended(msg): break`
StreamDone_Never(m) == FALSE
StreamDone_First(m) == TRUE
StreamDone(m) == Ended(m)

\* `if time.time() - start > self.timeout:`
Expired_AtDeadline(t, s, T) == t - s >= T
Expired(t, s, T) == t - s > T

\* `raise TimeoutError(...)` out of the polling loop: the local results die
OnTimeout_Partial(res) ==
    [ret |-> res, kind |-> "list", outcome |-> "Completed", err |-> "none"]
OnTimeout(res) ==
    [ret |-> <<>>, kind |-> "none", outcome |-> "TimedOut", err |-> "TimeoutError"]

\* the except clauses of HTTP.send: httpx.ConnectError becomes
\* ConnectionError, httpx.TimeoutException becomes TimeoutError, any other
\* exception leaves send as it is
Surface_Raw(e) == e
Surface(e) ==
    IF e = "ConnectError" THEN "ConnectionError"
    ELSE IF e = "TimeoutException" THEN "TimeoutError"
    ELSE e

\* `self.client.subscribe(self.response_topic)` follows a client.connect()
\* that did not raise
Subscribes_Never(ok) == FALSE
Subscribes(ok) == ok

\* send reaches its first inbox check straight after the publish: the
\* time.sleep(0.01) is the last statement of the loop body
SleptAtStart_Loop == TRUE
SleptAtStart == FALSE

\* ------------------------------------------------------------------ MQTT
\* MQTT.connect: the handle is assigned before client.connect() can raise
MQTTConnect ==
    /\ variant = "MQTT"
    /\ pc = "idle"
    /\ client' = "Client"
    /\ \/ /\ listeners < MaxListeners
          /\ linked' = TRUE
          /\ subscribed' = Subscribes(TRUE)
          /\ ownLoop' = TRUE
          /\ listeners' = listeners + 1
          /\ tstate' = "Connected"
          /\ Call("connect", "none")
       \/ /\ linked' = FALSE
          /\ subscribed' = Subscribes(FALSE)
          /\ ownLoop' = FALSE
          /\ UNCHANGED <<listeners, tstate>>
          /\ Call("connect", "ConnectionRefusedError")
    /\ UNCHANGED <<config, inbound, exchange, now>>

\* MQTT._on_message, run by a network-loop thread
OnMessage ==
    /\ variant = "MQTT"
    /\ listeners > 0
    /\ Len(appendLog) < MaxAppends
    /\ \E p \in Payload :
          LET data == json_loads(p) IN
          /\ messages' = InboxAppend(messages, data)
          /\ appendLog' = Append(appendLog, data)
    /\ fresh' = TRUE
    /\ UNCHANGED <<config, handle, wire, popped, pc, results, start, ret,
                   retKind, outcome, pushed, sendFrom, mark, aux, now,
                   call>>

\* MQTT._on_message when json.loads raises: nothing is appended and nothing
\* is handed to send; the exception leaves the callback inside the
\* network-loop thread, which paho either ends (it re-raises) or keeps
\* (suppress_exceptions)
OnBadMessage ==
    /\ variant = "MQTT"
    /\ listeners > 0
    /\ pc # "idle"
    /\ bad' = TRUE
    /\ \E own \in BOOLEAN, dies \in BOOLEAN :
          /\ own => ownLoop
          /\ ~own => listeners > (IF ownLoop THEN 1 ELSE 0)
          /\ listeners' = IF dies THEN listeners - 1 ELSE listeners
          /\ ownLoop' = IF own /\ dies THEN FALSE ELSE ownLoop
    /\ UNCHANGED <<config, client, linked, tstate, subscribed, inbound, pc,
                   results, start, ret, retKind, outcome, pushed, sendFrom,
                   mark, fresh, slept, trace, now, call>>

\* MQTT.send up to `start = time.time()`; send only uses differences of clock
\* readings, so the clock is read relative to this instant
MQTTSendCall ==
    /\ variant = "MQTT"
    /\ pc = "idle"
    \* of two overlapping calls the one that starts first is this one
    /\ pc2 = "idle"
    /\ sendFrom' = tstate
    /\ mark' = popped
    /\ fresh' = FALSE
    /\ slept' = SleptAtStart
    /\ bad' = FALSE
    /\ took' = FALSE
    /\ stale' = Len(messages)
    /\ results' = <<>>
    /\ ret' = <<>>
    /\ retKind' = "none"
    /\ IF NotConnected(client)
       THEN /\ Call("send", "ConnectionError")
            /\ outcome' = "Failed"
            /\ pushed' = FALSE
            /\ UNCHANGED <<pc, start, now>>
       ELSE /\ Call("send", "none")
            /\ outcome' = "none"
            \* publish leaves through the socket of a connected client; with
            \* its network-loop thread dead the packet may stay queued
            /\ pushed' \in IF ~linked THEN {FALSE}
                           ELSE IF ownLoop THEN {TRUE} ELSE BOOLEAN
            /\ now' = 0
            /\ start' = now'
            /\ pc' = "poll"
    /\ UNCHANGED <<config, handle, inbound, body, fault>>

\* the body of one `with self._lock:` block of either polling loop
MQTTPollBody ==
    /\ took' = (messages # <<>>)
    /\ IF messages # <<>>
       THEN LET p == Pop0(messages) IN
            /\ messages' = p.rest
            /\ popped' = popped + 1
            /\ IF ~callback
               THEN /\ ret' = <<p.msg>>
                    /\ retKind' = "single"
                    /\ outcome' = "Completed"
                    /\ pc' = "idle"
                    /\ UNCHANGED results
               ELSE IF StreamDone(p.msg)
               THEN /\ ret' = Append(results, p.msg)
                    /\ retKind' = "list"
                    /\ outcome' = "Completed"
                    /\ pc' = "idle"
                    /\ results' = <<>>
               ELSE /\ results' = Append(results, p.msg)
                    /\ pc' = "check"
                    /\ UNCHANGED <<ret, retKind, outcome>>
       ELSE /\ pc' = "check"
            /\ UNCHANGED <<messages, popped, results, ret, retKind, outcome>>
    /\ UNCHANGED <<config, handle, wire, appendLog, start, now, pushed,
                   sendFrom, mark, fresh, slept, bad, stale, body, fault,
                   call>>

\* one `with self._lock:` block: it runs before the elapsed-time test
MQTTPoll_DeadlineFirst ==
    /\ variant = "MQTT"
    /\ pc = "poll"
    /\ IF Expired(now, start, timeout)
       THEN /\ outcome' = "TimedOut"
            /\ err' = "TimeoutError"
            /\ ret' = <<>>
            /\ retKind' = "none"
            /\ results' = <<>>
            /\ pc' = "idle"
            /\ UNCHANGED <<config, handle, inbound, start, now, pushed,
                           sendFrom, mark, fresh, aux, op, opSeq>>
       ELSE MQTTPollBody
MQTTPoll ==
    /\ variant = "MQTT"
    /\ pc = "poll"
    /\ MQTTPollBody

\* the elapsed-time test after the locked block, then time.sleep(0.01)
MQTTCheck ==
    /\ variant = "MQTT"
    /\ pc = "check"
    /\ IF Expired(now, start, timeout)
       THEN LET t == OnTimeout(results) IN
            /\ ret' = t.ret
            /\ retKind' = t.kind
            /\ outcome' = t.outcome
            /\ err' = t.err
            /\ results' = <<>>
            /\ pc' = "idle"
            /\ UNCHANGED <<slept, took>>
       ELSE /\ pc' = "poll"
            /\ slept' = TRUE
            /\ took' = FALSE
            /\ UNCHANGED <<ret, retKind, outcome, err, results>>
    /\ UNCHANGED <<config, handle, inbound, start, now, pushed, sendFrom,
                   mark, fresh, bad, stale, body, fault, op, opSeq>>

\* MQTT.send called by a second thread while the first caller is inside
\* send: the same code on the same instance, with its own locals; its
\* publish goes out like the first caller's
Send2Call ==
    /\ variant = "MQTT"
    /\ pc # "idle"
    /\ pc2 = "idle"
    \* the second caller makes one call
    /\ outcome2 = "none"
    /\ results2' = <<>>
    /\ ret2' = <<>>
    /\ IF NotConnected(client)
       THEN /\ outcome2' = "Failed"
            /\ UNCHANGED <<pc2, start2>>
       ELSE /\ outcome2' = "none"
            /\ start2' = now
            /\ pc2' = "poll"
    /\ UNCHANGED <<settings, httpserver, factory, wsserver, handle, inbound, exchange, now, call>>

\* one `with self._lock:` block of the second caller
Poll2 ==
    /\ variant = "MQTT"
    /\ pc2 = "poll"
    /\ IF messages # <<>>
       THEN LET p == Pop0(messages) IN
            /\ messages' = p.rest
            /\ popped' = popped + 1
            /\ IF ~callback
               THEN /\ ret2' = <<p.msg>>
                    /\ outcome2' = "Completed"
                    /\ pc2' = "idle"
                    /\ UNCHANGED results2
               ELSE IF StreamDone(p.msg)
               THEN /\ ret2' = Append(results2, p.msg)
                    /\ outcome2' = "Completed"
                    /\ pc2' = "idle"
                    /\ results2' = <<>>
               ELSE /\ results2' = Append(results2, p.msg)
                    /\ pc2' = "check"
                    /\ UNCHANGED <<ret2, outcome2>>
       ELSE /\ pc2' = "check"
            /\ UNCHANGED <<messages, popped, results2, ret2, outcome2>>
    /\ UNCHANGED <<settings, httpserver, factory, wsserver, handle, wire, appendLog, exchange, start2, now,
                   call>>

\* the second caller's elapsed-time test, then time.sleep(0.01)
Check2 ==
    /\ variant = "MQTT"
    /\ pc2 = "check"
    /\ IF Expired(now, start2, timeout)
       THEN LET t == OnTimeout(results2) IN
            /\ ret2' = t.ret
            /\ outcome2' = t.outcome
            /\ results2' = <<>>
            /\ pc2' = "idle"
       ELSE /\ pc2' = "poll"
            /\ UNCHANGED <<ret2, outcome2, results2>>
    /\ UNCHANGED <<settings, httpserver, factory, wsserver, handle, inbound, exchange, start2, now, call>>

\* MQTT.close
MQTTClose ==
    /\ variant = "MQTT"
    /\ pc = "idle"
    /\ IF Truthy(client)
       THEN /\ Call("close", Deref(client))
            /\ IF client = "None"
               THEN UNCHANGED handle
               ELSE /\ listeners' = IF ownLoop THEN listeners - 1 ELSE listeners
                    /\ ownLoop' = FALSE
                    /\ subscribed' = FALSE
                    /\ linked' = FALSE
                    /\ client' = "None"
                    /\ tstate' = "Closed"
       ELSE /\ Call("close", "none")
            /\ UNCHANGED handle
    /\ UNCHANGED <<config, inbound, exchange, now>>

\* ------------------------------------------------------------- WebSocket
\* WebSocket.connect: self.ws is assigned only when connect(url) returns
WSConnect ==
    /\ variant = "WS"
    /\ pc = "idle"
    /\ \/ /\ client' = "Client"
          /\ linked' = TRUE
          /\ tstate' = "Connected"
          /\ wire' = <<>>
          /\ Call("connect", "none")
       \/ /\ Call("connect", "ConnectionRefusedError")
          /\ UNCHANGED <<client, linked, tstate, wire>>
    /\ UNCHANGED <<config, listeners, loop, messages, appendLog, popped, exchange,
                   now>>

\* the remote end writes one frame
WSRemoteSend ==
    /\ variant = "WS"
    /\ client # "None"
    /\ linked
    /\ Len(results) + Len(wire) < MaxAppends
    /\ \E p \in Payload : wire' = Append(wire, p)
    /\ UNCHANGED <<config, handle, messages, appendLog, popped, exchange,
                   now, call>>

\* the remote end closes the socket
WSRemoteClose ==
    /\ variant = "WS"
    /\ client # "None"
    /\ linked
    /\ linked' = FALSE
    /\ UNCHANGED <<config, client, listeners, loop, tstate, inbound, exchange, now,
                   call>>

\* WebSocket.send up to and including self.ws.send(...)
WSSendCall ==
    /\ variant = "WS"
    /\ pc = "idle"
    /\ sendFrom' = tstate
    /\ results' = <<>>
    /\ ret' = <<>>
    /\ retKind' = "none"
    /\ IF NotConnected(client)
       THEN /\ Call("send", "ConnectionError")
            /\ outcome' = "Failed"
            /\ pushed' = FALSE
            /\ UNCHANGED pc
       ELSE IF ~linked
       THEN /\ Call("send", "ConnectionClosed")
            /\ outcome' = "Failed"
            /\ pushed' = FALSE
            /\ UNCHANGED pc
       ELSE /\ Call("send", "none")
            /\ outcome' = "none"
            /\ pushed' = TRUE
            /\ pc' = "recv"
    /\ UNCHANGED <<config, handle, inbound, start, now, mark, fresh, aux>>

\* one self.ws.recv() of send: it blocks while no frame is there and the
\* socket is open, and raises ConnectionClosed once the peer has closed
WSRecv ==
    /\ variant = "WS"
    /\ pc = "recv"
    /\ IF wire # <<>>
       THEN LET response == json_loads(Head(wire)) IN
            /\ wire' = Tail(wire)
            /\ UNCHANGED err
            /\ IF ~callback
               THEN /\ ret' = <<response>>
                    /\ retKind' = "single"
                    /\ outcome' = "Completed"
                    /\ pc' = "idle"
                    /\ UNCHANGED results
               ELSE IF StreamDone(response)
               THEN /\ ret' = Append(results, response)
                    /\ retKind' = "list"
                    /\ outcome' = "Completed"
                    /\ pc' = "idle"
                    /\ results' = <<>>
               ELSE /\ results' = Append(results, response)
                    /\ UNCHANGED <<pc, ret, retKind, outcome>>
       ELSE /\ ~linked
            /\ err' = "ConnectionClosed"
            /\ outcome' = "Failed"
            /\ pc' = "idle"
            /\ results' = <<>>
            /\ UNCHANGED <<wire, ret, retKind>>
    /\ UNCHANGED <<config, handle, messages, appendLog, popped, start, now,
                   pushed,
                   sendFrom, mark, fresh, aux, op, opSeq>>

\* WebSocket.close
WSClose ==
    /\ variant = "WS"
    /\ pc = "idle"
    /\ IF Truthy(client)
       THEN /\ Call("close", Deref(client))
            /\ IF client = "None"
               THEN UNCHANGED <<handle, wire>>
               ELSE /\ client' = "None"
                    /\ linked' = FALSE
                    /\ tstate' = "Closed"
                    /\ wire' = <<>>
                    /\ UNCHANGED <<listeners, loop>>
       ELSE /\ Call("close", "none")
            /\ UNCHANGED <<handle, wire>>
    /\ UNCHANGED <<config, messages, appendLog, popped, exchange, now>>

\* ------------------------------------------------------------------ HTTP
\* HTTP.connect: httpx.Client(...) opens no connection and cannot be refused
HTTPConnect ==
    /\ variant = "HTTP"
    /\ client' = "Client"
    /\ linked' = TRUE
    /\ tstate' = "Connected"
    /\ Call("connect", "none")
    /\ UNCHANGED <<config, listeners, loop, inbound, exchange, now>>

\* HTTP.send is a generator function (it contains yield): the call runs no
\* line of the body and hands back a generator object
HTTPSendCall ==
    /\ variant = "HTTP"
    /\ pc = "idle"
    /\ Call("send", "none")
    /\ sendFrom' = tstate
    /\ pc' = "created"
    /\ ret' = <<>>
    /\ retKind' = "generator"
    /\ outcome' = "none"
    /\ pushed' = FALSE
    /\ body' = <<>>
    /\ fault' = "none"
    /\ UNCHANGED <<config, handle, inbound, results, start, now, mark, fresh,
                   slept, bad, took, stale>>

\* the first next(): the guard, then self.client.stream("POST", ...) and
\* e.raise_for_status()
HTTPOpen ==
    /\ variant = "HTTP"
    /\ pc = "created"
    /\ IF NotConnected(client)
       THEN /\ err' = "ConnectionError"
            /\ outcome' = "Failed"
            /\ pc' = "idle"
            /\ UNCHANGED <<wire, pushed, body, fault>>
       ELSE \/ /\ fault' = "ConnectError"
               /\ err' = Surface(fault')
               /\ outcome' = "Failed"
               /\ pc' = "idle"
               /\ UNCHANGED <<wire, pushed, body>>
            \/ /\ fault' = "TimeoutException"
               /\ err' = Surface(fault')
               /\ outcome' = "TimedOut"
               /\ pc' = "idle"
               /\ pushed' \in BOOLEAN
               /\ UNCHANGED <<wire, body>>
            \/ /\ fault' = "HTTPStatusError"     \* raise_for_status()
               /\ err' = Surface(fault')
               /\ outcome' = "Failed"
               /\ pc' = "idle"
               /\ pushed' = TRUE
               /\ UNCHANGED <<wire, body>>
            \/ /\ wire' \in SeqsUpTo(Line, MaxBody)
               /\ body' = wire'
               /\ pushed' = TRUE
               /\ pc' = "reading"
               /\ UNCHANGED <<err, outcome, fault>>
    /\ UNCHANGED <<config, handle, messages, appendLog, popped, results,
                   start, now, ret, retKind, sendFrom, mark, fresh, slept,
                   bad, took, stale, op, opSeq>>

\* one step of `for line in e.iter_lines():` up to the yield
HTTPRead ==
    /\ variant = "HTTP"
    /\ pc = "reading"
    /\ \/ IF wire = <<>>
          THEN /\ outcome' = "Completed"          \* the body ended
               /\ pc' = "idle"
               /\ UNCHANGED <<wire, ret, err, fault>>
          ELSE LET line == Head(wire) IN
               /\ wire' = Tail(wire)
               /\ IF line = EmptyLine
                  THEN UNCHANGED <<pc, ret>>      \* continue
                  ELSE /\ ret' = Append(ret, json_loads(line))
                       /\ pc' = "yielded"
               /\ UNCHANGED <<outcome, err, fault>>
       \/ /\ fault' = "TimeoutException"
          /\ err' = Surface(fault')
          /\ outcome' = "TimedOut"
          /\ pc' = "idle"
          /\ wire' = <<>>
          /\ UNCHANGED ret
       \/ /\ fault' = "ReadError"                 \* any other httpx error
          /\ err' = Surface(fault')
          /\ outcome' = "Failed"
          /\ pc' = "idle"
          /\ wire' = <<>>
          /\ UNCHANGED ret
    /\ UNCHANGED <<config, handle, messages, appendLog, popped, results,
                   start, now, retKind, pushed, sendFrom, mark, fresh, slept,
                   bad, took, stale, body, op, opSeq>>

\* the caller resumes the generator after a yield: `if self.ended(msg): break`
HTTPResume ==
    /\ variant = "HTTP"
    /\ pc = "yielded"
    /\ IF StreamDone(Last(ret))
       THEN /\ outcome' = "Completed"
            /\ pc' = "idle"
            /\ wire' = <<>>
       ELSE /\ pc' = "reading"
            /\ UNCHANGED <<outcome, wire>>
    /\ UNCHANGED <<config, handle, messages, appendLog, popped, results,
                   start, now, ret, retKind, pushed, sendFrom, mark, fresh, aux,
                   call>>

\* HTTP.close
HTTPClose ==
    /\ variant = "HTTP"
    /\ IF Truthy(client)
       THEN /\ Call("close", Deref(client))
            /\ IF client = "None"
               THEN UNCHANGED handle
               ELSE /\ client' = "None"
                    /\ linked' = FALSE
                    /\ tstate' = "Closed"
                    /\ UNCHANGED <<listeners, loop>>
       ELSE /\ Call("close", "none")
            /\ UNCHANGED handle
    /\ UNCHANGED <<config, inbound, exchange, now>>

Next ==
    \/ Tick
    \/ MQTTConnect
    \/ OnMessage
    \/ MQTTSendCall
    \/ MQTTPoll
    \/ MQTTCheck
    \/ MQTTClose
    \/ WSConnect
    \/ WSRemoteSend
    \/ WSRemoteClose
    \/ WSSendCall
    \/ WSRecv
    \/ WSClose
    \/ HTTPConnect
    \/ HTTPSendCall
    \/ HTTPOpen
    \/ HTTPRead
    \/ HTTPResume
    \/ HTTPClose

Spec == Init /\ [][Next]_vars

FairSpec ==
    /\ Spec
    /\ WF_vars(Tick)
    /\ WF_vars(MQTTPoll)
    /\ WF_vars(MQTTCheck)
    /\ WF_vars(WSRecv)
    /\ WF_vars(HTTPOpen)
    /\ WF_vars(HTTPRead)
    /\ WF_vars(HTTPResume)

\* the publish/subscribe variant with payloads that do not decode
InitDecode == Init /\ variant = "MQTT"

NextDecode ==
    \/ Tick
    \/ MQTTConnect
    \/ OnMessage
    \/ OnBadMessage
    \/ MQTTSendCall
    \/ MQTTPoll
    \/ MQTTCheck
    \/ MQTTClose

SpecDecode == InitDecode /\ [][NextDecode]_vars

\* the publish/subscribe variant with a predicate and two caller threads
InitOverlap == Init /\ variant = "MQTT" /\ callback

NextOverlap ==
    \/ Tick
    \/ MQTTConnect
    \/ OnMessage
    \/ MQTTSendCall
    \/ MQTTPoll
    \/ MQTTCheck
    \/ Send2Call
    \/ Poll2
    \/ Check2

SpecOverlap == InitOverlap /\ [][NextOverlap]_vars

\* ------------------------------------------------------------ HTTPServer
transport == <<settings, second, handle, inbound, exchange, now, call>>

\* HTTPServer.__init__
InitServer ==
    /\ variant = "SERVER"
    /\ callback = FALSE
    /\ timeout = 0
    /\ client = "None"
    /\ linked = FALSE
    /\ listeners = 0
    /\ messages = <<>>
    /\ wire = <<>>
    /\ pc = "idle"
    /\ results = <<>>
    /\ start = 0
    /\ now = 0
    /\ ret = <<>>
    /\ retKind = "none"
    /\ outcome = "none"
    /\ err = "none"
    /\ pushed = FALSE
    /\ op = "init"
    /\ opSeq = 0
    /\ tstate = "Unconnected"
    /\ sendFrom = "none"
    /\ appendLog = <<>>
    /\ popped = 0
    /\ mark = 0
    /\ fresh = FALSE
    /\ subscribed = FALSE
    /\ ownLoop = FALSE
    /\ slept = FALSE
    /\ bad = FALSE
    /\ pc2 = "idle"
    /\ results2 = <<>>
    /\ start2 = 0
    /\ ret2 = <<>>
    /\ outcome2 = "none"
    /\ is_running = FALSE
    /\ _server = 0
    /\ _thread = 0
    /\ should_exit = {}
    /\ rpc = [t \in Runs |-> "unborn"]
    /\ rsrv = [t \in Runs |-> 0]
    /\ rowner = [t \in Runs |-> 0]
    /\ cpc = [c \in Callers |-> "idle"]
    /\ cblock = [c \in Callers |-> FALSE]
    /\ stopSeen = FALSE
    /\ took = FALSE
    /\ stale = 0
    /\ body = <<>>
    /\ fault = "none"
    /\ token = "None"
    /\ ai = NoAI
    /\ history = NoHistory
    /\ arg = <<>>
    /\ clients = {}
    /\ _on_connect_callback = FALSE
    /\ _on_message_callback = FALSE
    /\ _on_disconnect_callback = FALSE
    /\ hpc = [w \in Conns |-> "waiting"]
    /\ disc = [w \in Conns |-> 0]

\* executions of _run_server not begun yet, and callers on their way to one
Unborn == {t \in Runs : rpc[t] = "unborn"}
Starting == {c \in Callers : cpc[c] \in {"start_set", "start_run"}}

\* every start has returned and a background thread executes _run_server
Background ==
    /\ Starting = {}
    /\ \E t \in Runs : rpc[t] \notin {"unborn", "done"} /\ rowner[t] = 0

\* start: `if self.is_running: return`
StartCall(c, block) ==
    /\ variant = "SERVER"
    /\ cpc[c] = "idle"
    /\ Cardinality(Starting) < Cardinality(Unborn)
    /\ IF is_running
       THEN UNCHANGED <<cpc, cblock>>
       ELSE /\ cpc' = [cpc EXCEPT ![c] = "start_set"]
            /\ cblock' = [cblock EXCEPT ![c] = block]
    /\ UNCHANGED <<transport, factory, wsserver, is_running, _server, _thread, should_exit, rpc,
                   rsrv, rowner, stopSeen>>

\* start: `self.is_running = True`
StartSet(c) ==
    /\ variant = "SERVER"
    /\ cpc[c] = "start_set"
    /\ is_running' = TRUE
    /\ cpc' = [cpc EXCEPT ![c] = "start_run"]
    /\ UNCHANGED <<transport, factory, wsserver, _server, _thread, should_exit, rpc, rsrv,
                   rowner, cblock, stopSeen>>

\* start: `self._run_server()` in the calling thread, or
\* `self._thread = threading.Thread(...); self._thread.start()`
StartRun(c) ==
    /\ variant = "SERVER"
    /\ cpc[c] = "start_run"
    /\ \E t \in Unborn :
          /\ \A u \in Unborn : t <= u
          /\ rpc' = [rpc EXCEPT ![t] = "entry"]
          /\ IF cblock[c]
             THEN /\ rowner' = [rowner EXCEPT ![t] = c]
                  /\ cpc' = [cpc EXCEPT ![c] = "blocked"]
                  /\ UNCHANGED _thread
             ELSE /\ _thread' = t
                  /\ cpc' = [cpc EXCEPT ![c] = "idle"]
                  /\ UNCHANGED rowner
    /\ UNCHANGED <<transport, factory, wsserver, is_running, _server, should_exit, rsrv, cblock,
                   stopSeen>>

\* _run_server: `self._server = uvicorn.Server(config)`
RunCreate(t) ==
    /\ variant = "SERVER"
    /\ rpc[t] = "entry"
    /\ _server' = t
    /\ rpc' = [rpc EXCEPT ![t] = "created"]
    /\ UNCHANGED <<transport, factory, wsserver, is_running, _thread, should_exit, rsrv, rowner,
                   cpc, cblock, stopSeen>>

\* _run_server: `self._server.run()` is entered on the object the attribute
\* holds at that moment
RunServe(t) ==
    /\ variant = "SERVER"
    /\ rpc[t] = "created"
    /\ rsrv' = [rsrv EXCEPT ![t] = _server]
    /\ rpc' = [rpc EXCEPT ![t] = "serving"]
    /\ UNCHANGED <<transport, factory, wsserver, is_running, _server, _thread, should_exit,
                   rowner, cpc, cblock, stopSeen>>

\* uvicorn's Server.run returns once its should_exit is True
RunReturn(t) ==
    /\ variant = "SERVER"
    /\ rpc[t] = "serving"
    /\ rsrv[t] \in should_exit
    /\ rpc' = [rpc EXCEPT ![t] = "returned"]
    /\ UNCHANGED <<transport, factory, wsserver, is_running, _server, _thread, should_exit,
                   rsrv, rowner, cpc, cblock, stopSeen>>

\* _run_server: `self.is_running = False`; a blocking start returns
RunFinish(t) ==
    /\ variant = "SERVER"
    /\ rpc[t] = "returned"
    /\ is_running' = FALSE
    /\ stopSeen' = FALSE
    /\ rpc' = [rpc EXCEPT ![t] = "done"]
    /\ cpc' = IF rowner[t] = 0 THEN cpc
              ELSE [cpc EXCEPT ![rowner[t]] = "idle"]
    /\ UNCHANGED <<transport, factory, wsserver, _server, _thread, should_exit, rsrv, rowner,
                   cblock>>

\* stop: `if not self.is_running: return`
StopCall(c) ==
    /\ variant = "SERVER"
    /\ cpc[c] = "idle"
    /\ IF ~is_running
       THEN UNCHANGED <<cpc, stopSeen>>
       ELSE /\ cpc' = [cpc EXCEPT ![c] = "stop_signal"]
            /\ stopSeen' = (stopSeen \/ Background)
    /\ UNCHANGED <<transport, factory, wsserver, is_running, _server, _thread, should_exit, rpc,
                   rsrv, rowner, cblock>>

\* stop: `if self._server: self._server.should_exit = True`
StopSignal(c) ==
    /\ variant = "SERVER"
    /\ cpc[c] = "stop_signal"
    /\ should_exit' = IF _server # 0 THEN should_exit \cup {_server}
                      ELSE should_exit
    /\ cpc' = [cpc EXCEPT ![c] = "idle"]
    /\ UNCHANGED <<transport, factory, wsserver, is_running, _server, _thread, rpc, rsrv,
                   rowner, cblock, stopSeen>>

NextServer ==
    \/ \E c \in Callers, block \in BOOLEAN : StartCall(c, block)
    \/ \E c \in Callers : StartSet(c)
    \/ \E c \in Callers : StartRun(c)
    \/ \E t \in Runs : RunCreate(t)
    \/ \E t \in Runs : RunServe(t)
    \/ \E t \in Runs : RunReturn(t)
    \/ \E t \in Runs : RunFinish(t)
    \/ \E c \in Callers : StopCall(c)
    \/ \E c \in Callers : StopSignal(c)

SpecServer == InitServer /\ [][NextServer]_vars

\* every thread that can take its next statement eventually takes it; no
\* caller is obliged to make a further call
FairServer ==
    /\ SpecServer
    /\ \A c \in Callers :
          WF_vars(StartSet(c)) /\ WF_vars(StartRun(c)) /\ WF_vars(StopSignal(c))
    /\ \A t \in Runs :
          /\ WF_vars(RunCreate(t)) /\ WF_vars(RunServe(t))
          /\ WF_vars(RunReturn(t)) /\ WF_vars(RunFinish(t))

\* ------------------------------------------------------------- AIFactory
\* arguments of connect / switch_model
VendorArg == {"", "deepseek", "qwen", "claude", "acme"}
ModelArg == {"", "chat", "nope"}
PromptArg == {"None", "", "sys"}
TokenArg == {"t1"}

\* role/config.json as read by _extract_params: vendor -> models
ConfigVendors == {"deepseek", "qwen", "claude"}
ConfigModels(v) == {"chat"}

\* the vendors call_model has a class for
Supported == {"deepseek", "doubao", "kimi", "qwen"}

\* `if vendor and model_name:`
NonEmpty(x) == x # ""

\* _extract_params and call_model: the exception raised, or "none"
ModelError(v, m) ==
    IF v \notin ConfigVendors THEN "ValueError"
    ELSE IF m \notin ConfigModels(v) THEN "ValueError"
    ELSE IF v \notin Supported THEN "ValueError"
    ELSE "none"

\* DeepSeek(params) / Qwen(params) ...: a new instance, without tools
NewModel(v, m) == [vendor |-> v, model |-> m, tools |-> FALSE]

\* HistHistoryManager(messages=[], system_prompt=..., token_callback=...)
NewHistory(p, a) ==
    [system_prompt |-> p, token_callback |-> a.vendor, messages |-> 0]

\* `if self.history is None: ... self.history = HistHistoryManager(...)
\*  else: pass`
HistoryAfter_Fresh(h, new) == new
HistoryAfter(h, new) == IF h = NoHistory THEN new ELSE h

idleTransport == <<settings, second, handle, inbound, exchange, now>>

\* AIFactory.__init__
InitFactory ==
    /\ variant = "AI"
    /\ callback = FALSE
    /\ timeout = 0
    /\ client = "None"
    /\ linked = FALSE
    /\ listeners = 0
    /\ messages = <<>>
    /\ wire = <<>>
    /\ pc = "idle"
    /\ results = <<>>
    /\ start = 0
    /\ now = 0
    /\ ret = <<>>
    /\ retKind = "none"
    /\ outcome = "none"
    /\ err = "none"
    /\ pushed = FALSE
    /\ op = "init"
    /\ opSeq = 0
    /\ tstate = "Unconnected"
    /\ sendFrom = "none"
    /\ appendLog = <<>>
    /\ popped = 0
    /\ mark = 0
    /\ fresh = FALSE
    /\ subscribed = FALSE
    /\ ownLoop = FALSE
    /\ slept = FALSE
    /\ bad = FALSE
    /\ pc2 = "idle"
    /\ results2 = <<>>
    /\ start2 = 0
    /\ ret2 = <<>>
    /\ outcome2 = "none"
    /\ is_running = FALSE
    /\ _server = 0
    /\ _thread = 0
    /\ should_exit = {}
    /\ rpc = [t \in Runs |-> "unborn"]
    /\ rsrv = [t \in Runs |-> 0]
    /\ rowner = [t \in Runs |-> 0]
    /\ cpc = [c \in Callers |-> "idle"]
    /\ cblock = [c \in Callers |-> FALSE]
    /\ stopSeen = FALSE
    /\ took = FALSE
    /\ stale = 0
    /\ body = <<>>
    /\ fault = "none"
    /\ token = "None"
    /\ ai = NoAI
    /\ history = NoHistory
    /\ arg = <<>>
    /\ clients = {}
    /\ _on_connect_callback = FALSE
    /\ _on_message_callback = FALSE
    /\ _on_disconnect_callback = FALSE
    /\ hpc = [w \in Conns |-> "waiting"]
    /\ disc = [w \in Conns |-> 0]

\* AIFactory.set_token
set_token ==
    /\ variant = "AI"
    /\ \E t \in TokenArg : token' = t
    /\ Call("set_token", "none")
    /\ UNCHANGED <<idleTransport, httpserver, wsserver, ai, history, arg>>

\* the body of switch_model, which connect calls with its own arguments
SwitchBody(name, v, m, p) ==
    /\ arg' = <<v, m, p>>
    /\ IF ~(NonEmpty(v) /\ NonEmpty(m))
       THEN /\ Call(name, "none")
            /\ UNCHANGED <<ai, history>>
       ELSE \/ /\ Call(name, "FileNotFoundError")   \* no role/config.json
               /\ UNCHANGED <<ai, history>>
            \/ IF ModelError(v, m) # "none"
               THEN /\ Call(name, ModelError(v, m))
                    /\ UNCHANGED <<ai, history>>
               ELSE /\ ai' = NewModel(v, m)
                    /\ IF history = NoHistory /\ p = "None"
                       THEN /\ Call(name, "ValueError")
                            /\ UNCHANGED history
                       ELSE /\ history' = HistoryAfter(history,
                                                       NewHistory(p, ai'))
                            /\ Call(name, "none")
    /\ UNCHANGED <<idleTransport, httpserver, wsserver, token>>

\* AIFactory.connect
connect ==
    /\ variant = "AI"
    /\ \E v \in VendorArg, m \in ModelArg, p \in PromptArg :
          SwitchBody("connect", v, m, p)

\* AIFactory.switch_model
switch_model ==
    /\ variant = "AI"
    /\ \E v \in VendorArg, m \in ModelArg, p \in PromptArg :
          SwitchBody("switch_model", v, m, p)

\* AIFactory.disconnect
disconnect ==
    /\ variant = "AI"
    /\ ai' = NoAI
    /\ history' = NoHistory
    /\ Call("disconnect", "none")
    /\ UNCHANGED <<idleTransport, httpserver, wsserver, token, arg>>

\* AIFactory.gen_link_params
gen_link_params ==
    /\ variant = "AI"
    /\ Call("gen_link_params", IF ai = NoAI THEN "RuntimeError" ELSE "none")
    /\ UNCHANGED <<idleTransport, httpserver, wsserver, factory>>

\* AIFactory.gen_question_params: history.write, history.read, ai.gen_request
gen_question_params ==
    /\ variant = "AI"
    /\ IF ai = NoAI \/ history = NoHistory
       THEN /\ Call("gen_question_params", "RuntimeError")
            /\ UNCHANGED history
       ELSE /\ history.messages < MaxWrites
            /\ history' = [history EXCEPT !.messages = @ + 1]
            /\ Call("gen_question_params", "none")
    /\ UNCHANGED <<idleTransport, httpserver, wsserver, token, ai, arg>>

\* AIFactory.add_tools
add_tools ==
    /\ variant = "AI"
    /\ IF ai = NoAI
       THEN /\ Call("add_tools", "RuntimeError")
            /\ UNCHANGED ai
       ELSE /\ ai' = [ai EXCEPT !.tools = TRUE]
            /\ Call("add_tools", "none")
    /\ UNCHANGED <<idleTransport, httpserver, wsserver, token, history, arg>>

NextFactory ==
    \/ set_token
    \/ connect
    \/ switch_model
    \/ disconnect
    \/ gen_link_params
    \/ gen_question_params
    \/ add_tools

SpecFactory == InitFactory /\ [][NextFactory]_vars

\* ------------------------------------------------------- WebSocketServer
\* WebSocketServer.__init__
InitWSServer ==
    /\ variant = "WSS"
    /\ callback = FALSE
    /\ timeout = 0
    /\ client = "None"
    /\ linked = FALSE
    /\ listeners = 0
    /\ messages = <<>>
    /\ wire = <<>>
    /\ pc = "idle"
    /\ results = <<>>
    /\ start = 0
    /\ now = 0
    /\ ret = <<>>
    /\ retKind = "none"
    /\ outcome = "none"
    /\ err = "none"
    /\ pushed = FALSE
    /\ op = "init"
    /\ opSeq = 0
    /\ tstate = "Unconnected"
    /\ sendFrom = "none"
    /\ appendLog = <<>>
    /\ popped = 0
    /\ mark = 0
    /\ fresh = FALSE
    /\ subscribed = FALSE
    /\ ownLoop = FALSE
    /\ slept = FALSE
    /\ bad = FALSE
    /\ pc2 = "idle"
    /\ results2 = <<>>
    /\ start2 = 0
    /\ ret2 = <<>>
    /\ outcome2 = "none"
    /\ is_running = FALSE
    /\ _server = 0
    /\ _thread = 0
    /\ should_exit = {}
    /\ rpc = [t \in Runs |-> "unborn"]
    /\ rsrv = [t \in Runs |-> 0]
    /\ rowner = [t \in Runs |-> 0]
    /\ cpc = [c \in Callers |-> "idle"]
    /\ cblock = [c \in Callers |-> FALSE]
    /\ stopSeen = FALSE
    /\ took = FALSE
    /\ stale = 0
    /\ body = <<>>
    /\ fault = "none"
    /\ token = "None"
    /\ ai = NoAI
    /\ history = NoHistory
    /\ arg = <<>>
    /\ clients = {}
    /\ _on_connect_callback = FALSE
    /\ _on_message_callback = FALSE
    /\ _on_disconnect_callback = FALSE
    /\ hpc = [w \in Conns |-> "waiting"]
    /\ disc = [w \in Conns |-> 0]

\* `self.clients.discard(websocket)`
Discard_Keep(S, w) == S
Discard(S, w) == S \ {w}

\* WebSocketServer.set_on_connect; the argument may be None
set_on_connect ==
    /\ variant = "WSS"
    /\ \E cb \in BOOLEAN : _on_connect_callback' = cb
    /\ UNCHANGED <<transport, httpserver, factory, clients,
                   _on_message_callback, _on_disconnect_callback, hpc, disc>>

\* WebSocketServer.set_on_message
set_on_message ==
    /\ variant = "WSS"
    /\ \E cb \in BOOLEAN : _on_message_callback' = cb
    /\ UNCHANGED <<transport, httpserver, factory, clients,
                   _on_connect_callback, _on_disconnect_callback, hpc, disc>>

\* WebSocketServer.set_on_disconnect
set_on_disconnect ==
    /\ variant = "WSS"
    /\ \E cb \in BOOLEAN : _on_disconnect_callback' = cb
    /\ UNCHANGED <<transport, httpserver, factory, clients,
                   _on_connect_callback, _on_message_callback, hpc, disc>>

\* _handler up to its first await: clients.add, then the on_connect
\* callback or the wait for a message
HandlerStart(w) ==
    /\ variant = "WSS"
    /\ hpc[w] = "waiting"
    /\ clients' = clients \cup {w}
    /\ hpc' = [hpc EXCEPT ![w] = IF _on_connect_callback THEN "on_connect"
                                 ELSE "recv"]
    /\ UNCHANGED <<transport, httpserver, factory, callbacks, disc>>

\* the finally block up to its await: discard, then the on_disconnect
\* callback is called if one is set
Finally(w) ==
    /\ clients' = Discard(clients, w)
    /\ IF _on_disconnect_callback
       THEN /\ disc' = [disc EXCEPT ![w] = @ + 1]
            /\ hpc' = [hpc EXCEPT ![w] = "on_disconnect"]
       ELSE /\ hpc' = [hpc EXCEPT ![w] = "done"]
            /\ UNCHANGED disc

\* `await self._on_connect_callback(websocket)` returns or raises
OnConnectEnd(w) ==
    /\ variant = "WSS"
    /\ hpc[w] = "on_connect"
    /\ \/ /\ hpc' = [hpc EXCEPT ![w] = "recv"]
          /\ UNCHANGED <<clients, disc>>
       \/ Finally(w)
    /\ UNCHANGED <<transport, httpserver, factory, callbacks>>

\* `async for message in websocket:` delivers a message
Receive(w) ==
    /\ variant = "WSS"
    /\ hpc[w] = "recv"
    /\ _on_message_callback
    /\ hpc' = [hpc EXCEPT ![w] = "on_message"]
    /\ UNCHANGED <<transport, httpserver, factory, clients, callbacks, disc>>

\* `async for message in websocket:` ends: the connection closed, failed,
\* or the handler task was cancelled
ReceiveEnd(w) ==
    /\ variant = "WSS"
    /\ hpc[w] = "recv"
    /\ Finally(w)
    /\ UNCHANGED <<transport, httpserver, factory, callbacks>>

\* `await self._on_message_callback(websocket, message)` returns or raises
OnMessageEnd(w) ==
    /\ variant = "WSS"
    /\ hpc[w] = "on_message"
    /\ \/ /\ hpc' = [hpc EXCEPT ![w] = "recv"]
          /\ UNCHANGED <<clients, disc>>
       \/ Finally(w)
    /\ UNCHANGED <<transport, httpserver, factory, callbacks>>

\* `await self._on_disconnect_callback(websocket)` returns or raises
OnDisconnectEnd(w) ==
    /\ variant = "WSS"
    /\ hpc[w] = "on_disconnect"
    /\ hpc' = [hpc EXCEPT ![w] = "done"]
    /\ UNCHANGED <<transport, httpserver, factory, clients, callbacks, disc>>

NextWSServer ==
    \/ set_on_connect
    \/ set_on_message
    \/ set_on_disconnect
    \/ \E w \in Conns : HandlerStart(w)
    \/ \E w \in Conns : OnConnectEnd(w)
    \/ \E w \in Conns : Receive(w)
    \/ \E w \in Conns : ReceiveEnd(w)
    \/ \E w \in Conns : OnMessageEnd(w)
    \/ \E w \in Conns : OnDisconnectEnd(w)

SpecWSServer == InitWSServer /\ [][NextWSServer]_vars

\* ================================================================ claims
Terminal == pc = "idle" /\ outcome \in {"Completed", "TimedOut", "Failed"}
Elapsed == now - start
NoneBeforeLast(s) == \A i \in 1..(Len(s) - 1) : ~Ended(s[i])
EndsOnPredicate(s) == s # <<>> /\ Ended(Last(s)) /\ NoneBeforeLast(s)

\* C1 (as stated): on HTTP, MQTT and WebSocket alike, an Exchange with a
\* Termination Predicate that ends normally hands the caller a non-empty
\* sequence whose last element satisfies the predicate and whose earlier
\* elements do not.
C1_Original ==
    (callback /\ outcome = "Completed") => EndsOnPredicate(ret)

\* C1 (amended): on MQTT and WebSocket the sequence is non-empty, ends on the
\* first element satisfying the predicate; on HTTP no element before the last
\* satisfies the predicate, and the generator ends normally on a sequence that
\* is empty or whose last element does not satisfy it only when the response
\* body had no further line.
C1_Amended ==
    /\ [](  (callback /\ outcome = "Completed") =>
              /\ NoneBeforeLast(ret)
              /\ variant \in {"MQTT", "WS"} => EndsOnPredicate(ret) )
    /\ [][ (variant = "HTTP" /\ outcome' = "Completed" /\ pc # "idle"
             /\ ~EndsOnPredicate(ret'))
           => (pc = "reading" /\ wire = <<>> /\ ret' = ret) ]_vars

C1_Witness ==
    /\ variant = "MQTT" /\ callback /\ outcome = "Completed"
    /\ Len(ret) >= 2

\* C2: without a Termination Predicate, MQTT.send and WebSocket.send hand the
\* caller exactly one Message, the oldest one available, which is removed from
\* the inbox, or raise; they never hand back nothing and never a list.
C2_Single ==
    /\ [](  (variant \in {"MQTT", "WS"} /\ ~callback) =>
              /\ retKind \in {"none", "single"}
              /\ outcome = "Completed" =>
                    /\ retKind = "single" /\ Len(ret) = 1
                    /\ op = "send" => err = "none"
                    /\ variant = "MQTT" =>
                          /\ popped = mark + 1
                          /\ ret[1] = appendLog[popped]
                          /\ messages = SubSeq(appendLog, popped + 1,
                                               Len(appendLog))
              /\ outcome \in {"TimedOut", "Failed"} =>
                    /\ op = "send" => err \in {"TimeoutError", "ConnectionError",
                                               "ConnectionClosed"}
                    /\ retKind = "none" /\ ret = <<>>
              /\ Terminal \/ ret = <<>> )
    /\ [][ (variant = "WS" /\ ~callback /\ pc = "recv"
             /\ outcome' = "Completed")
           => (wire # <<>> /\ ret' = <<json_loads(Head(wire))>>
               /\ wire' = Tail(wire)) ]_vars

C2_Witness ==
    /\ variant = "MQTT" /\ ~callback /\ outcome = "Completed"
    /\ Len(ret) = 1 /\ messages # <<>>

\* C3: a streaming MQTT Exchange that ends at the elapsed-time test after it
\* accumulated Messages raises TimeoutError and hands the caller none of them.
C3_NoTruncated ==
    /\ [](  (variant = "MQTT" /\ callback /\ outcome = "TimedOut") =>
              /\ op = "send" => err = "TimeoutError"
              /\ ret = <<>> /\ retKind = "none" )
    /\ [][ (variant = "MQTT" /\ callback /\ pc = "check" /\ pc' = "idle")
           => (outcome' = "TimedOut" /\ err' = "TimeoutError"
               /\ ret' = <<>> /\ retKind' = "none") ]_vars

C3_Witness ==
    /\ variant = "MQTT" /\ callback /\ outcome = "TimedOut"
    /\ popped > mark /\ ret = <<>>

\* C4 (as stated): an MQTT Exchange during which no Message was appended to
\* the inbox since its publish does not complete: it ends in Timeout, raised
\* only when the elapsed time is strictly greater than the timeout.
C4_Claim ==
    (variant = "MQTT" /\ op = "send" /\ sendFrom # "none" /\ ~fresh) =>
        /\ outcome # "Completed"
        /\ outcome = "TimedOut" => Elapsed > timeout

\* C5 (as stated): send called in Unconnected or Closed fails with the
\* not-connected error at the call and pushes nothing to the remote end.
C5_Claim ==
    /\ (op = "send" /\ sendFrom \in {"Unconnected", "Closed"}) =>
          (err = "ConnectionError" /\ outcome = "Failed" /\ pc = "idle")
    /\ sendFrom \in {"Unconnected", "Closed"} => ~pushed

\* C6 (as stated): every Exchange started on a Connected Transport
\* eventually reaches Completed, TimedOut or Failed.
C6_Claim ==
    [](  (pc # "idle" /\ sendFrom = "Connected") => <>Terminal )

\* C7 (as stated): no MQTT Exchange ends in Completed with the elapsed time
\* above the timeout.
C7_Original ==
    (variant = "MQTT" /\ outcome = "Completed") => Elapsed <= timeout

\* C7 (amended): on MQTT a Timeout is raised only at an elapsed-time test that
\* finds elapsed > timeout, and every poll iteration that reaches its
\* elapsed-time test with elapsed > timeout ends in Timeout; an Exchange still
\* ends in Completed after the deadline when the inbox examination, which runs
\* first, pops the completing Message.
C7_Amended ==
    /\ [](  (variant = "MQTT" /\ outcome = "TimedOut") => Elapsed > timeout )
    /\ [][ (variant = "MQTT" /\ pc = "check" /\ pc' # pc) =>
             IF Elapsed > timeout
             THEN outcome' = "TimedOut" /\ err' = "TimeoutError" /\ pc' = "idle"
             ELSE outcome' = "none" /\ pc' = "poll" ]_vars

C7_Witness ==
    /\ variant = "MQTT" /\ ~callback /\ outcome = "Completed"
    /\ Elapsed > timeout

\* C8: in one poll iteration of MQTT.send the inbox is examined before the
\* elapsed time: with a Message satisfying the predicate at the head of the
\* inbox and the deadline elapsed, the iteration ends the Exchange in
\* Completed with the accumulated sequence.
C8_PredicateFirst ==
    [][ (variant = "MQTT" /\ callback /\ pc = "poll" /\ pc' # pc
          /\ messages # <<>> /\ Ended(Head(messages)) /\ Elapsed > timeout)
        => (outcome' = "Completed" /\ pc' = "idle" /\ retKind' = "list"
            /\ ret' = Append(results, Head(messages))) ]_vars

C8_Witness ==
    /\ variant = "MQTT" /\ callback /\ outcome = "Completed"
    /\ Elapsed > timeout /\ Len(ret) >= 2

\* C9: the inbox holds the appended Messages not yet popped in append order,
\* and the sequence a streaming MQTT Exchange collects and returns is the run
\* of appended Messages from the first one not popped before, in append
\* order, none skipped or duplicated.
C9_Fifo ==
    variant = "MQTT" =>
        /\ messages = SubSeq(appendLog, popped + 1, Len(appendLog))
        /\ (callback /\ pc \in {"poll", "check"}) =>
              results = SubSeq(appendLog, mark + 1, popped)
        /\ (callback /\ outcome = "Completed") =>
              ret = SubSeq(appendLog, mark + 1, popped)

C9_Witness ==
    /\ variant = "MQTT" /\ callback /\ outcome = "Completed"
    /\ ret = <<"a", "b", "done">>

\* C10: close() on a Transport whose handle is None (never connected, or
\* already closed) raises nothing and changes no state, on every variant.
C10_CloseIdempotent ==
    [][ (opSeq' # opSeq /\ op' = "close" /\ client = "None")
        => (err' = "none"
            /\ UNCHANGED <<config, handle, inbound, exchange, now>>) ]_vars

C10_Witness ==
    /\ op = "close" /\ tstate = "Unconnected" /\ client = "None"
    /\ err = "none"

\* C11 (as stated): once MQTT.close() has returned no network-loop thread
\* feeds the inbox any more and the inbox is empty.
C11_Claim ==
    (variant = "MQTT" /\ op = "close") => (listeners = 0 /\ messages = <<>>)

\* C12 (as stated): connect() on a Connected Transport raises an error and
\* leaves the handle and its listener as they were.
C12_Claim ==
    [][ (opSeq' # opSeq /\ op' = "connect" /\ tstate = "Connected")
        => (err' # "none" /\ UNCHANGED handle) ]_vars

\* C13 (as stated): the Transport State never leaves Closed and never goes
\* back from Connected to Unconnected.
C13_Claim ==
    [][ /\ tstate = "Closed" => tstate' = "Closed"
        /\ tstate = "Connected" => tstate' \in {"Connected", "Closed"} ]_vars

\* C14: on MQTT the handle that carries a publish has issued its subscribe
\* before (in connect), and send on a Transport without a handle is rejected
\* with ConnectionError and publishes nothing.
C14_SubscribeFirst ==
    /\ [](  (variant = "MQTT" /\ linked) => subscribed )
    /\ [][ (variant = "MQTT" /\ opSeq' # opSeq /\ op' = "send") =>
             /\ pushed' => subscribed
             /\ client = "None" =>
                   (err' = "ConnectionError" /\ ~pushed' /\ pc' = "idle") ]_vars

C14_Witness ==
    /\ variant = "MQTT" /\ op = "send" /\ pushed /\ subscribed

\* C15 (as stated): NotConnected and ConnectionRefused are different error
\* kinds: the kind send raises for NotConnected (ConnectionError) is raised by
\* send only when the Transport has no handle.
C15_Claim ==
    [][ (outcome' = "Failed" /\ err' = "ConnectionError"
          /\ (opSeq' # opSeq \/ pc # "idle"))
        => client = "None" ]_vars

\* C18: under every interleaving of listener appends and caller polls the
\* Messages appended are the Messages popped followed by the Messages still
\* in the inbox, in append order: none is popped twice and none is lost.
C18_Conservation ==
    variant = "MQTT" =>
        /\ mark <= popped
        /\ popped + Len(messages) = Len(appendLog)
        /\ \A i \in 1..Len(messages) : messages[i] = appendLog[popped + i]

C18_Witness ==
    /\ variant = "MQTT" /\ pc = "check" /\ popped > mark
    /\ messages # <<>> /\ Len(appendLog) = popped + Len(messages)

\* C19: in single-response mode MQTT.send reaches its first inbox check
\* without having slept, and with a Message in the inbox at that check it
\* returns the Message there and then, no time.sleep executed.
C19_NoSleep ==
    /\ [][ (variant = "MQTT" /\ opSeq' # opSeq /\ op' = "send"
             /\ pc' = "poll") => ~slept' ]_vars
    /\ [][ (variant = "MQTT" /\ ~callback /\ pc = "poll" /\ ~slept
             /\ messages # <<>> /\ pc' # pc)
           => (pc' = "idle" /\ outcome' = "Completed" /\ ~slept'
               /\ ret' = <<Head(messages)>>) ]_vars

C19_Witness ==
    /\ variant = "MQTT" /\ ~callback /\ op = "send"
    /\ outcome = "Completed" /\ Len(ret) = 1 /\ ~slept

\* C16 (as stated): an undecodable payload that reaches the listener while an
\* Exchange of MQTT.send is in Sent or Collecting ends that Exchange in
\* Failed.
C16_Claim ==
    (variant = "MQTT" /\ op = "send" /\ bad /\ Terminal) => outcome = "Failed"

\* C17 (as stated): two Exchanges of one MQTT instance that overlap never
\* both pop Messages from its inbox.
C17_Claim ==
    (variant = "MQTT" /\ pc # "idle" /\ pc2 # "idle")
        => ~(results # <<>> /\ results2 # <<>>)

\* C20 (as stated): a stop() called after start(block=False) has returned
\* and finding is_running true is always followed by the server stopping:
\* is_running becomes false.
C20_Claim ==
    (variant = "SERVER" /\ stopSeen) ~> ~is_running

\* C22 (as stated): an iteration of the polling loop of MQTT.send whose
\* locked block popped a Message without returning does not end the
\* Exchange in TimedOut.
C22_Claim ==
    [][ (variant = "MQTT" /\ pc = "check" /\ took)
        => outcome' # "TimedOut" ]_vars

\* C26 (as stated): every Message an MQTT Exchange returns was appended to
\* the inbox after that Exchange's publish.  The Messages returned are
\* appendLog[mark + 1 .. popped]; the first mark + stale entries of appendLog
\* were appended before the publish.
C26_Claim ==
    (variant = "MQTT" /\ op = "send" /\ outcome = "Completed") =>
        \A i \in (mark + 1)..popped : i > mark + stale

\* the Messages HTTP.send is to yield for a response body: the decoded
\* non-empty lines, in order, up to and including the first ended one
RECURSIVE Yields(_)
Yields(b) ==
    IF b = <<>> THEN <<>>
    ELSE IF Head(b) = EmptyLine THEN Yields(Tail(b))
    ELSE LET m == json_loads(Head(b)) IN
         IF Ended(m) THEN <<m>> ELSE <<m>> \o Yields(Tail(b))

RECURSIVE DecodeAll(_)
DecodeAll(b) ==
    IF b = <<>> THEN <<>>
    ELSE IF Head(b) = EmptyLine THEN DecodeAll(Tail(b))
    ELSE <<json_loads(Head(b))>> \o DecodeAll(Tail(b))

IsPrefix(s, t) == Len(s) <= Len(t) /\ s = SubSeq(t, 1, Len(s))

\* C23: what HTTP.send has yielded is always a prefix of Yields(body) and is
\* the decoding of the non-empty lines read so far; when the generator ends
\* normally it has yielded exactly Yields(body).
C23_Yields ==
    (variant = "HTTP" /\ retKind = "generator") =>
        /\ IsPrefix(ret, Yields(body))
        /\ pc \in {"reading", "yielded"} =>
              /\ Len(wire) <= Len(body)
              /\ wire = SubSeq(body, Len(body) - Len(wire) + 1, Len(body))
              /\ ret = DecodeAll(SubSeq(body, 1, Len(body) - Len(wire)))
        /\ outcome = "Completed" => ret = Yields(body)

C23_Witness ==
    /\ variant = "HTTP" /\ outcome = "Completed" /\ pc = "idle"
    /\ Len(body) = 2 /\ body[1] = json_dumps("done") /\ ret = <<"done">>

\* C24: when httpx fails inside HTTP.send, at the opening of the stream or
\* while reading it, ConnectError reaches the caller as ConnectionError and
\* TimeoutException as TimeoutError; what was yielded before stays with the
\* caller and the handle is untouched.
C24_Failures ==
    [][ (variant = "HTTP" /\ fault' # fault /\ fault' # "none") =>
          /\ fault' = "ConnectError" => err' = "ConnectionError"
          /\ fault' = "TimeoutException" => err' = "TimeoutError"
          /\ pc' = "idle"
          /\ ret' = ret
          /\ UNCHANGED handle ]_vars

C24_Witness ==
    /\ variant = "HTTP" /\ fault = "TimeoutException" /\ err = "TimeoutError"
    /\ ret # <<>> /\ tstate = "Connected" /\ pc = "idle"

\* executions of _run_server that have begun and not finished
Active == {t \in Runs : rpc[t] \notin {"unborn", "done"}}

\* C25 (as stated): at most one execution of _run_server of an HTTPServer is
\* in progress at any time, and while one is in progress is_running is true.
C25_Claim ==
    variant = "SERVER" =>
        /\ Cardinality(Active) <= 1
        /\ Active # {} => is_running

Switching == opSeq' # opSeq /\ op' \in {"connect", "switch_model"}

C27_Claim ==
    /\ [][ (variant = "AI" /\ Switching /\ err' # "none")
             => UNCHANGED <<ai, history>> ]_vars
    /\ [](variant = "AI" => (ai # NoAI => history # NoHistory))

\* _handler of w is inside its try block
InTry(w) == hpc[w] \in {"on_connect", "recv", "on_message"}

\* C28: a websocket is in clients exactly while its _handler is inside the
\* try block; the on_disconnect callback is invoked for it at most once,
\* only in the step that removes it from clients, and in that step exactly
\* when a callback is set, so never while it is still a member.
C28_Membership ==
    /\ [](variant = "WSS" =>
            \A w \in Conns :
               /\ w \in clients <=> InTry(w)
               /\ disc[w] <= 1
               /\ disc[w] = 1 => (w \notin clients
                                   /\ hpc[w] \in {"on_disconnect", "done"}))
    /\ [][ variant = "WSS" =>
            \A w \in Conns :
               /\ (InTry(w) /\ ~InTry(w)') =>
                     /\ w \notin clients'
                     /\ disc'[w] = IF _on_disconnect_callback THEN 1 ELSE 0
               /\ disc'[w] # disc[w] => (InTry(w) /\ ~InTry(w)') ]_vars

C28_Witness ==
    /\ variant = "WSS"
    /\ \E w \in Conns, x \in Conns :
          /\ hpc[w] = "done" /\ disc[w] = 1 /\ w \notin clients
          /\ x \in clients /\ hpc[x] = "on_message"

====
